---- MODULE Spec2Model ----
(***************************************************************************)
(* State-machine model of S_quiz_app_with_admin_23JUL.py, a Streamlit quiz *)
(* application.  One script run of main() is one evaluation of the         *)
(* operator main; a user event (a widget change or a button click) is one  *)
(* action: the script run it triggers, followed by the run started by      *)
(* st.experimental_rerun() when the handler calls it.                      *)
(*                                                                         *)
(* Python lists are sequences; the 0-based index i of the source is        *)
(* position i + 1 here.  A dict (st.session_state, a question record, a    *)
(* JSON object) is a function whose DOMAIN is the set of its keys, so that *)
(* "key in dict" is "key \in DOMAIN dict".                                 *)
(***************************************************************************)
EXTENDS Integers, Sequences, FiniteSets, TLC

VARIABLES
    session_state,  \* st.session_state of the one browser session modelled
    disk,           \* the working directory: file name -> file content
    page,           \* what the last script run rendered (buttons, question, report)
    calls           \* the create_user calls of other sessions that are under way

vars == <<session_state, disk, page, calls>>

-----------------------------------------------------------------------------
(* Bounds of the model. *)

\* number of records of the bank a.json of the quiz specification; b.json
\* holds one record more
SmallBank == 2

\* number of records of the bank b.json of the sampling specification
BigBank == 11

\* random.sample may return its k records in any order; the model enumerates
\* every k-subset of bank positions, in ascending and in descending order,
\* each rotated by 0..MaxRotation places (every order when k <= MaxRotation + 1)
MaxRotation == 2

-----------------------------------------------------------------------------
(* Python values and helpers. *)

None == "<None>"

EmptyDict == <<>>

Min(a, b) == IF a <= b THEN a ELSE b

Range(s) == {s[i] : i \in 1..Len(s)}

\* dict[k] = v
Put(dict, k, v) == [x \in DOMAIN dict \cup {k} |-> IF x = k THEN v ELSE dict[x]]

\* del dict[k] for every k in keys
Drop(dict, keys) == [x \in DOMAIN dict \ keys |-> dict[x]]

\* number of positions of the list s that hold x
Count(s, x) == Cardinality({i \in 1..Len(s) : s[i] = x})

\* the permutations of the positions 1..n
Perms(n) == {p \in [1..n -> 1..n] : \A i, j \in 1..n : p[i] = p[j] => i = j}

RECURSIVE Ascending(_)
\* the elements of a finite set of integers in ascending order
Ascending(S) ==
    IF S = {} THEN <<>>
    ELSE LET lo == CHOOSE x \in S : \A y \in S : x <= y
         IN <<lo>> \o Ascending(S \ {lo})

Reverse(s) == [i \in 1..Len(s) |-> s[Len(s) + 1 - i]]

Rotate(s, r) == [i \in 1..Len(s) |-> s[((i - 1 + r) % Len(s)) + 1]]

-----------------------------------------------------------------------------
(* Constants of the program. *)

SETTINGS_FILE == "settings.json"

USERS_FILE == "users.json"

LowCount == 10

MediumCount == 20

HardCount == 30

Difficulties == <<"low", "medium", "hard">>

\* {"low": 10, "medium": 20, "hard": 30}[difficulty]
num_questions(difficulty) ==
    CASE difficulty = "low" -> LowCount
      [] difficulty = "medium" -> MediumCount
      [] difficulty = "hard" -> HardCount

-----------------------------------------------------------------------------
(* The environment: the files of the working directory, the images that    *)
(* PIL can open, the texts a user types.                                   *)

\* os.listdir(): the directory's names in the order the listing returns them
ListDir == <<"a.json", "b.json", "e.json", "settings.json", "users.json">>

LoadableImages == {"ok.png"}

Ids == <<"q1", "q2", "q3", "q4", "q5", "q6", "q7", "q8", "q9", "q10",
         "q11", "q12", "q13", "q14", "q15", "q16">>

\* The i-th record of the test banks, as stored in a question file.  The
\* first four differ in what the claims distinguish: correct_answer missing
\* from options, present once, present twice, options with a duplicate
\* distractor; and in image_path: no key, a loadable image, a missing image,
\* an empty string.
StoredRecord(i) ==
    LET base == [id |-> Ids[i], question |-> "text", category |-> "cat",
                 difficulty |-> "easy"]
    IN CASE i = 1 -> [options |-> <<"x">>, correct_answer |-> "z"] @@ base
         [] i = 2 -> [options |-> <<"x", "y">>, correct_answer |-> "x",
                      image_path |-> "ok.png"] @@ base
         [] i = 3 -> [options |-> <<"x", "x">>, correct_answer |-> "x",
                      image_path |-> "gone.png"] @@ base
         [] i = 4 -> [options |-> <<"y", "y">>, correct_answer |-> "z",
                      image_path |-> ""] @@ base
         [] OTHER -> [options |-> <<"y">>, correct_answer |-> "y"] @@ base

\* a question file holding the records from..to
BankFile(from, to) == [json |-> [i \in 1..(to - from + 1) |-> StoredRecord(from + i - 1)]]

\* hashlib.sha256(password.encode()).hexdigest(), by its table on the
\* passwords the model types (the first 12 hex digits of each digest)
hash_password(password) ==
    CASE password = "p" -> "148de9c5a7a4"
      [] password = "p2" -> "3946ca64ff78"
      [] password = "wrong" -> "8810ad581e59"
      [] OTHER -> "e3b0c44298fc"

Usernames == {"a", "b", "admin"}

Passwords == {"p", "p2", "wrong"}

\* the working directory of the quiz specification: two small banks, an
\* empty bank, one registered account, no settings file yet
QuizDisk ==
    [f \in {"a.json", "b.json", "e.json", USERS_FILE} |->
        CASE f = "a.json" -> BankFile(1, SmallBank)
          [] f = "b.json" -> BankFile(SmallBank + 1, 2 * SmallBank + 1)
          [] f = "e.json" -> [json |-> <<>>]
          [] f = USERS_FILE -> [json |-> [u \in {"a"} |-> hash_password("p")]]]

\* the working directory of the sampling specification: b.json holds more
\* records than the "low" difficulty asks for (records with one option each,
\* which have one shuffle: the shuffles are the quiz specification's part)
SampleDisk ==
    [f \in {"a.json", "b.json", USERS_FILE} |->
        CASE f = "a.json" -> BankFile(1, SmallBank)
          [] f = "b.json" -> BankFile(5, 4 + BigBank)
          [] f = USERS_FILE -> [json |-> [u \in {"a"} |-> hash_password("p")]]]

-----------------------------------------------------------------------------
(* Settings and question files. *)

load_settings(d) ==
    IF SETTINGS_FILE \in DOMAIN d THEN d[SETTINGS_FILE].json
    ELSE [difficulty |-> "medium"]

save_settings(d, settings) == Put(d, SETTINGS_FILE, [json |-> settings])

\* Image.open(path) succeeds
image_opens(path) == path \in LoadableImages

\* mutant of checked_image: the path is dropped whether or not the image opens
checked_image_always_null(question) == Put(question, "image_path", None)

\* mutant of checked_image: a path is kept whether or not the image opens
checked_image_keeps_path(question) ==
    IF "image_path" \in DOMAIN question THEN question
    ELSE Put(question, "image_path", None)

\* lines 30-38: the record as load_questions leaves it
checked_image(question) ==
    IF "image_path" \in DOMAIN question /\ question.image_path \notin {"", None}
    THEN IF image_opens(question.image_path) THEN question
         ELSE Put(question, "image_path", None)
    ELSE Put(question, "image_path", None)

load_questions(d, filename) ==
    IF filename \in DOMAIN d /\ "json" \in DOMAIN d[filename]
    THEN [i \in 1..Len(d[filename].json) |-> checked_image(d[filename].json[i])]
    ELSE <<>>

save_questions(d, filename, questions) == Put(d, filename, [json |-> questions])

-----------------------------------------------------------------------------
(* initialize_quiz_state *)

\* the orders in which the model lists a sampled set S of positions
SampleOrders(S) ==
    LET asc == Ascending(S)
        k == Len(asc)
    IN IF k = 0 THEN {<<>>}
       ELSE UNION {{Rotate(asc, r), Rotate(Reverse(asc), r)} :
                       r \in 0..Min(k - 1, MaxRotation)}

\* random.sample(population, k): k records at pairwise distinct positions
random_sample(population, k) ==
    LET n == Len(population)
        positions == UNION {SampleOrders(S) :
                              S \in {T \in SUBSET (1..n) : Cardinality(T) = k}}
    IN {[i \in 1..k |-> population[p[i]]] : p \in positions}

\* mutant of sample_size: the difficulty is ignored, the "low" count is used
sample_size_ignores_difficulty(questions, difficulty) ==
    Min(LowCount, Len(questions))

\* min(num_questions, len(questions))
sample_size(questions, difficulty) ==
    Min(num_questions(difficulty), Len(questions))

\* mutant of options_with_answer: correct_answer is appended without the
\* membership test
options_always_appended(question) ==
    Append(question.options, question.correct_answer)

\* lines 61-63: a copy of the options, correct_answer appended if missing
options_with_answer(question) ==
    IF question.correct_answer \notin Range(question.options)
    THEN Append(question.options, question.correct_answer)
    ELSE question.options

\* random.shuffle(options): the list in any order of its positions
random_shuffle(options) ==
    {[i \in 1..Len(options) |-> options[p[i]]] : p \in Perms(Len(options))}

RECURSIVE shuffled_options(_)
\* lines 59-65: one shuffled list per sampled question, in order
shuffled_options(questions) ==
    IF questions = <<>> THEN {<<>>}
    ELSE {<<first>> \o rest :
            first \in random_shuffle(options_with_answer(Head(questions))),
            rest \in shuffled_options(Tail(questions))}

\* mutant of initialize_quiz_state: the tally of a previous session is kept
initialize_keeps_score(ss, questions, difficulty) ==
    UNION {
        {[questions |-> sample,
          total_questions |-> Len(sample),
          correct_answers |-> IF "correct_answers" \in DOMAIN ss
                              THEN ss.correct_answers ELSE 0,
          incorrect_questions |-> <<>>,
          current_question |-> 0,
          shuffled_options |-> shuffled,
          quiz_started |-> FALSE] @@ ss : shuffled \in shuffled_options(sample)} :
        sample \in random_sample(questions, sample_size(questions, difficulty))}

\* mutant of initialize_quiz_state: the cursor of a previous session is kept
initialize_keeps_index(ss, questions, difficulty) ==
    UNION {
        {[questions |-> sample,
          total_questions |-> Len(sample),
          correct_answers |-> 0,
          incorrect_questions |-> <<>>,
          current_question |-> IF "current_question" \in DOMAIN ss
                               THEN Min(ss.current_question, Len(sample)) ELSE 0,
          shuffled_options |-> shuffled,
          quiz_started |-> FALSE] @@ ss : shuffled \in shuffled_options(sample)} :
        sample \in random_sample(questions, sample_size(questions, difficulty))}

\* mutant of initialize_quiz_state: the session is left started
initialize_started(ss, questions, difficulty) ==
    UNION {
        {[questions |-> sample,
          total_questions |-> Len(sample),
          correct_answers |-> 0,
          incorrect_questions |-> <<>>,
          current_question |-> 0,
          shuffled_options |-> shuffled,
          quiz_started |-> TRUE] @@ ss : shuffled \in shuffled_options(sample)} :
        sample \in random_sample(questions, sample_size(questions, difficulty))}

\* mutant of initialize_quiz_state: the options of the sampled records are
\* shuffled in place
initialize_shuffles_in_place(ss, questions, difficulty) ==
    UNION {
        {[questions |-> [k \in 1..Len(sample) |->
                            [sample[k] EXCEPT !.options = shuffled[k]]],
          total_questions |-> Len(sample),
          correct_answers |-> 0,
          incorrect_questions |-> <<>>,
          current_question |-> 0,
          shuffled_options |-> shuffled,
          quiz_started |-> FALSE] @@ ss : shuffled \in shuffled_options(sample)} :
        sample \in random_sample(questions, sample_size(questions, difficulty))}

\* the session states initialize_quiz_state(questions, difficulty) can leave
initialize_quiz_state(ss, questions, difficulty) ==
    UNION {
        {[questions |-> sample,
          total_questions |-> Len(sample),
          correct_answers |-> 0,
          incorrect_questions |-> <<>>,
          current_question |-> 0,
          shuffled_options |-> shuffled,
          quiz_started |-> FALSE] @@ ss : shuffled \in shuffled_options(sample)} :
        sample \in random_sample(questions, sample_size(questions, difficulty))}

-----------------------------------------------------------------------------
(* What a script run renders, and what it returns to the runtime. *)

\* st.button(label, key=...): the widget a click names; key is the number in
\* the source's key or label (submit_<k>), 0 where there is none
Button(label, key) == <<label, key>>

NoClick == Button("", 0)

BlankPage == [buttons |-> {}, widgets |-> {}, question |-> <<>>,
              options |-> <<>>, report |-> <<>>, messages |-> {}]

AddButton(pg, button) == [pg EXCEPT !.buttons = @ \cup {button}]

\* st.success(text), st.error(text) of the sidebar forms and the admin page
AddMessage(pg, text) == [pg EXCEPT !.messages = @ \cup {text}]

\* the keys the widgets of main() keep in st.session_state
WidgetKeys == {"file_selector", "difficulty_selector"}

\* the outcome of one script run: the session state and the directory it
\* leaves, the page it rendered, and whether st.experimental_rerun() ended it
Out(ss, d, pg, rerun) == [ss |-> ss, disk |-> d, page |-> pg, rerun |-> rerun]

\* st.selectbox(label, options, index, key): the value the session holds for
\* the key when it is one of the options, the option at index otherwise
selectbox(ss, key, options, index) ==
    IF key \in DOMAIN ss /\ ss[key] \in Range(options) THEN ss[key]
    ELSE options[index + 1]

\* list.index(x)
index_of(list, x) == (CHOOSE i \in 1..Len(list) : list[i] = x) - 1

-----------------------------------------------------------------------------
(* The account store. *)

load_users(d) == IF USERS_FILE \in DOMAIN d THEN d[USERS_FILE].json ELSE EmptyDict

save_users(d, users) == Put(d, USERS_FILE, [json |-> users])

\* mutant of create_user: the digest of an existing user is overwritten
create_user_overwrites(d, username, password) ==
    LET users == load_users(d)
    IN [result |-> username \notin DOMAIN users,
        disk |-> save_users(d, Put(users, username, hash_password(password)))]

\* [result, disk]: what create_user returns and the directory it leaves
create_user(d, username, password) ==
    LET users == load_users(d)
    IN IF username \notin DOMAIN users
       THEN [result |-> TRUE,
             disk |-> save_users(d, Put(users, username, hash_password(password)))]
       ELSE [result |-> FALSE, disk |-> d]

\* mutant of save_new_user: the table is read again before it is written
save_new_user_rereads(d, users, username, password) ==
    IF username \notin DOMAIN users
    THEN [result |-> TRUE,
          disk |-> save_users(d, Put(load_users(d), username, hash_password(password)))]
    ELSE [result |-> FALSE, disk |-> d]

\* lines 87-91 of create_user, run on the table `users` that line 86 loaded
\* some time before: [result, disk]
save_new_user(d, users, username, password) ==
    IF username \notin DOMAIN users
    THEN [result |-> TRUE,
          disk |-> save_users(d, Put(users, username, hash_password(password)))]
    ELSE [result |-> FALSE, disk |-> d]

\* mutant of verify_user: any password of a registered user is accepted
verify_user_ignores_password(d, username, password) ==
    username \in DOMAIN load_users(d)

verify_user(d, username, password) ==
    LET users == load_users(d)
    IN username \in DOMAIN users /\ users[username] = hash_password(password)

login(ss, d, pg, click, inp) ==
    LET pg1 == AddButton(pg, Button("Login", 0))
    IN IF click = Button("Login", 0)
       THEN IF verify_user(d, inp.username, inp.password)
            THEN Out([logged_in |-> TRUE, username |-> inp.username] @@ ss, d, pg1, TRUE)
            ELSE Out(ss, d, AddMessage(pg1, "Invalid username or password"), FALSE)
       ELSE Out(ss, d, pg1, FALSE)

create_account(ss, d, pg, click, inp) ==
    LET pg1 == AddButton(pg, Button("Create Account", 0))
        created == create_user(d, inp.new_username, inp.new_password)
    IN IF click = Button("Create Account", 0)
       THEN Out(ss, created.disk,
                AddMessage(pg1, IF created.result THEN "Account created successfully!"
                                ELSE "Username already exists"), FALSE)
       ELSE Out(ss, d, pg1, FALSE)

\* mutant of logout: the quiz session is cleared as well
logout_clears_session(ss, d, pg) ==
    Out([logged_in |-> FALSE, username |-> None], d, pg, TRUE)

logout(ss, d, pg) ==
    Out([logged_in |-> FALSE, username |-> None] @@ ss, d, pg, TRUE)

-----------------------------------------------------------------------------
(* quiz_interface *)

\* mutant of submit_answer: a wrong answer does not advance the cursor
submit_answer_stays_when_wrong(ss, question, user_answer) ==
    IF user_answer = question.correct_answer
    THEN [ss EXCEPT !["correct_answers"] = @ + 1, !["current_question"] = @ + 1]
    ELSE [ss EXCEPT !["incorrect_questions"] = Append(@, question.id)]

\* mutant of submit_answer: the cursor advances by two
submit_answer_skips(ss, question, user_answer) ==
    LET scored ==
            IF user_answer = question.correct_answer
            THEN [ss EXCEPT !["correct_answers"] = @ + 1]
            ELSE [ss EXCEPT !["incorrect_questions"] = Append(@, question.id)]
    IN [scored EXCEPT !["current_question"] = @ + 2]

\* lines 271-278: the session state after Submit Answer on `question`
submit_answer(ss, question, user_answer) ==
    LET scored ==
            IF user_answer = question.correct_answer
            THEN [ss EXCEPT !["correct_answers"] = @ + 1]
            ELSE [ss EXCEPT !["incorrect_questions"] = Append(@, question.id)]
    IN [scored EXCEPT !["current_question"] = @ + 1]

\* mutant of start_quiz: starting also rewinds to the first question
start_quiz_rewinds(ss) ==
    [ss EXCEPT !["quiz_started"] = TRUE, !["current_question"] = 0]

\* line 248: Start Quiz was clicked
start_quiz(ss) == [ss EXCEPT !["quiz_started"] = TRUE]

\* line 252: ss.questions[ss.current_question]
current_record(ss) == ss.questions[ss.current_question + 1]

\* mutant of current_options: the options of the first question are shown
current_options_of_first(ss) == ss.shuffled_options[1]

\* line 264: ss.shuffled_options[ss.current_question]
current_options(ss) == ss.shuffled_options[ss.current_question + 1]

\* lines 250-292: the part of quiz_interface after the Start Quiz button
quiz_page(ss, d, pg, questions, difficulty, click, inp) ==
    IF ss.quiz_started
    THEN IF ss.current_question < ss.total_questions
         THEN LET question == current_record(ss)
                  options == current_options(ss)
                  submit == Button("Submit Answer", ss.current_question)
                  pg1 == [AddButton(pg, submit) EXCEPT
                              !.question = <<question>>, !.options = <<options>>]
              IN IF click = submit
                 THEN {Out(submit_answer(ss, question, inp.user_answer), d, pg1, TRUE)}
                 ELSE {Out(ss, d, pg1, FALSE)}
         ELSE LET pg1 == [AddButton(pg, Button("Restart Quiz", 0)) EXCEPT
                              !.report = <<[correct |-> ss.correct_answers,
                                            total |-> ss.total_questions,
                                            wrong |-> ss.incorrect_questions]>>]
              IN IF click = Button("Restart Quiz", 0)
                 THEN {Out(s, d, pg1, TRUE) :
                          s \in initialize_quiz_state(ss, questions, difficulty)}
                 ELSE {Out(ss, d, pg1, FALSE)}
    ELSE {Out(ss, d, pg, FALSE)}

\* mutant of needs_initialization: a change of difficulty is not noticed
needs_initialization_ignores_difficulty(ss, difficulty, filename) ==
    \/ "questions" \notin DOMAIN ss
    \/ "last_file" \notin DOMAIN ss
    \/ ss.last_file # filename

\* mutant of needs_initialization: every script run initializes
needs_initialization_always(ss, difficulty, filename) == TRUE

\* lines 238-240: the condition under which quiz_interface initializes
needs_initialization(ss, difficulty, filename) ==
    \/ "questions" \notin DOMAIN ss
    \/ "last_file" \notin DOMAIN ss
    \/ ss.last_file # filename
    \/ "last_difficulty" \notin DOMAIN ss
    \/ ss.last_difficulty # difficulty

quiz_interface(ss, d, pg, questions, difficulty, filename, click, inp) ==
    LET initialized ==
            IF needs_initialization(ss, difficulty, filename)
            THEN {[last_file |-> filename, last_difficulty |-> difficulty] @@ s :
                     s \in initialize_quiz_state(ss, questions, difficulty)}
            ELSE {ss}
        pg1 == AddButton(pg, Button("Start Quiz", 0))
    IN UNION {quiz_page(IF click = Button("Start Quiz", 0) THEN start_quiz(s) ELSE s,
                        d, pg1, questions, difficulty, click, inp) :
                 s \in initialized}

-----------------------------------------------------------------------------
(* admin_interface.  The text of the options input is the sequence of its  *)
(* pieces: an option text, or "," for a comma; the empty text is <<>>.     *)

RECURSIVE split_commas(_)
\* text.split(','): the pieces between the commas, at least one
split_commas(text) ==
    IF text = <<>> THEN <<"">>
    ELSE LET rest == split_commas(Tail(text))
         IN IF Head(text) = "," THEN <<"">> \o rest
            ELSE <<Head(text) \o Head(rest)>> \o Tail(rest)

RECURSIVE join_commas(_)
\* ','.join(options)
join_commas(options) ==
    IF options = <<>> THEN <<>>
    ELSE (IF Head(options) = "" THEN <<>> ELSE <<Head(options)>>)
         \o (IF Len(options) > 1 THEN <<",">> \o join_commas(Tail(options)) ELSE <<>>)

\* what st.text_input shows and returns for the initial value None: the
\* text "None" where the value is cast to str, None where the build keeps it
NoneTexts == {"None", None}

\* lines 136-145: the record built from the widgets of "Add New Question"
new_question(form) ==
    [id |-> form.id, question |-> form.question, category |-> form.category,
     difficulty |-> form.difficulty, options |-> split_commas(form.options),
     correct_answer |-> form.correct_answer, image_path |-> form.image_path]

\* line 148: the four required fields are true in Python's sense, a text
\* when it is not empty and a list when it has an element
required_fields_filled(question) ==
    /\ question.id # ""
    /\ question.question # ""
    /\ Len(question.options) > 0
    /\ question.correct_answer # ""

\* the value of the edit widget `field` of question i: what the admin typed
\* into it, or else the initial value it was rendered with
edited(inp, i, field, initial) ==
    IF inp.edit # <<>> /\ inp.edit[1].index = i /\ inp.edit[1].field = field
    THEN inp.edit[1].value
    ELSE initial

\* lines 159-170: question i after its fields are read back from its widgets
edit_widgets(question, i, inp, none_text) ==
    LET image == IF "image_path" \in DOMAIN question THEN question.image_path ELSE ""
    IN [image_path |-> IF image = None THEN none_text ELSE image,
        correct_answer |-> edited(inp, i, "correct_answer", question.correct_answer),
        options |-> split_commas(join_commas(question.options)),
        question |-> edited(inp, i, "question", question.question)] @@ question

\* questions.pop(i)
pop(questions, i) ==
    SubSeq(questions, 1, i) \o SubSeq(questions, i + 2, Len(questions))

\* st.button raises DuplicateWidgetID for the second "Update Question <id>"
duplicate_button(questions, i) ==
    \E j \in 1..i : questions[j].id = questions[i + 1].id

RECURSIVE admin_loop(_, _, _, _, _, _, _)
\* lines 157-180 from question i on (i counts from 0): the list, the update
\* flag and the page when the loop is left, and how it is left
admin_loop(questions, i, updated, pg, click, inp, none_text) ==
    IF i >= Len(questions)
    THEN [questions |-> questions, updated |-> updated, page |-> pg, left |-> "end"]
    ELSE LET edits == [questions EXCEPT
                          ![i + 1] = edit_widgets(questions[i + 1], i, inp, none_text)]
             pg1 == AddButton(pg, Button("Update Question", i))
             pg2 == AddButton(pg1, Button("Delete Question", i))
         IN IF duplicate_button(questions, i)
            THEN [questions |-> edits, updated |-> updated,
                  page |-> AddMessage(pg, "DuplicateWidgetID"), left |-> "exception"]
            ELSE IF click = Button("Delete Question", i)
            THEN [questions |-> pop(edits, i), updated |-> TRUE,
                  page |-> AddMessage(pg2, "Question deleted successfully!"),
                  left |-> "rerun"]
            ELSE IF click = Button("Update Question", i)
            THEN admin_loop(edits, i + 1, TRUE,
                            AddMessage(pg2, "Question updated successfully!"),
                            click, inp, none_text)
            ELSE admin_loop(edits, i + 1, updated, pg2, click, inp, none_text)

admin_interface(ss, d, pg, filename, click, inp) ==
    LET questions == load_questions(d, filename)
        pg1 == AddButton(pg, Button("Add Question", 0))
        added == click = Button("Add Question", 0)
                    /\ required_fields_filled(new_question(inp.form))
        questions1 == IF added THEN Append(questions, new_question(inp.form))
                      ELSE questions
        d1 == IF added THEN save_questions(d, filename, questions1) ELSE d
        pg2 == IF click # Button("Add Question", 0) THEN pg1
               ELSE IF added THEN AddMessage(pg1, "Question added successfully!")
               ELSE AddMessage(pg1, "Please fill in all required fields.")
    IN {LET loop == admin_loop(questions1, 0, FALSE, pg2, click, inp, none_text)
        IN IF loop.left = "rerun" THEN Out(ss, d1, loop.page, TRUE)
           ELSE IF loop.left = "end" /\ loop.updated
           THEN Out(ss, save_questions(d1, filename, loop.questions),
                    AddMessage(loop.page, "All changes saved successfully!"), FALSE)
           ELSE Out(ss, d1, loop.page, FALSE) :
           none_text \in NoneTexts}

-----------------------------------------------------------------------------
(* main *)

\* the question files of the directory, in listing order
json_files(d) ==
    SelectSeq(ListDir, LAMBDA f : f \in DOMAIN d /\ f \notin {SETTINGS_FILE, USERS_FILE})

\* the outcomes of one run of main() on session state m.ss and directory
\* m.disk, when the user's event was a click on `click` (NoClick for a
\* widget change or a rerun) with the texts and the radio choice `inp`
main(m, click, inp) ==
    LET ss0 == IF "logged_in" \in DOMAIN m.ss THEN m.ss
               ELSE Put(m.ss, "logged_in", FALSE)
    IN IF ~ss0.logged_in
       THEN LET r == login(ss0, m.disk, BlankPage, click, inp)
            IN IF r.rerun THEN {r}
               ELSE {create_account(r.ss, r.disk, r.page, click, inp)}
       ELSE LET pg1 == AddButton(BlankPage, Button("Logout", 0))
            IN IF click = Button("Logout", 0) THEN {logout(ss0, m.disk, pg1)}
               ELSE IF json_files(m.disk) = <<>> THEN {Out(ss0, m.disk, pg1, FALSE)}
               ELSE LET filename == selectbox(ss0, "file_selector", json_files(m.disk), 0)
                        ss1 == Put(ss0, "file_selector", filename)
                        pg2 == [pg1 EXCEPT !.widgets = @ \cup {"file_selector"}]
                    IN IF filename = "" THEN {Out(ss1, m.disk, pg2, FALSE)}
                       ELSE LET settings == load_settings(m.disk)
                                difficulty ==
                                    selectbox(ss1, "difficulty_selector", Difficulties,
                                              index_of(Difficulties, settings.difficulty))
                                ss2 == Put(ss1, "difficulty_selector", difficulty)
                                pg3 == [pg2 EXCEPT !.widgets = @ \cup {"difficulty_selector"}]
                                d1 == save_settings(m.disk,
                                                    Put(settings, "difficulty", difficulty))
                                questions == load_questions(d1, filename)
                            IN IF questions = <<>> THEN {Out(ss2, d1, pg3, FALSE)}
                               ELSE IF ss2.username = "admin"
                               THEN admin_interface(ss2, d1, pg3, filename, click, inp)
                               ELSE quiz_interface(ss2, d1, pg3, questions, difficulty,
                                                   filename, click, inp)

\* one script run: main(), after which the runtime forgets the values of the
\* keyed widgets the run did not render
script_run(m, click, inp) ==
    {[r EXCEPT !.ss = Drop(@, WidgetKeys \ r.page.widgets)] : r \in main(m, click, inp)}

\* a user event: the script run it triggers and, when that run ended in
\* st.experimental_rerun(), the run that follows (which has no click)
handle_event(m, click, inp) ==
    UNION {IF r.rerun THEN script_run(r, NoClick, inp) ELSE {r} :
              r \in script_run(m, click, inp)}

-----------------------------------------------------------------------------
(* The state machine. *)

\* the widgets of "Add New Question" as they are first rendered
EmptyForm == [id |-> "", question |-> "", category |-> "", difficulty |-> "easy",
              options |-> <<>>, correct_answer |-> "", image_path |-> ""]

NoInput == [username |-> "", password |-> "", new_username |-> "",
            new_password |-> "", user_answer |-> "", form |-> EmptyForm,
            edit |-> <<>>]

\* the other sessions: none of them is inside create_user
Sessions == {"s1", "s2"}

NoCalls == [c \in Sessions |-> [pc |-> "idle"]]

\* the event is handled on session state ss: the variables take one outcome
Handled(ss, click, inp) ==
    \E r \in handle_event([ss |-> ss, disk |-> disk], click, inp) :
        /\ session_state' = r.ss
        /\ disk' = r.disk
        /\ page' = r.page
        /\ UNCHANGED calls

\* the browser opens the application: the first script run, on an empty
\* session state, in directory d
Opened(d) ==
    \E r \in handle_event([ss |-> EmptyDict, disk |-> d], NoClick, NoInput) :
        /\ session_state = r.ss
        /\ disk = r.disk
        /\ page = r.page
        /\ calls = NoCalls

\* Login with username u and password p typed
LoginWith(u, p) ==
    /\ Button("Login", 0) \in page.buttons
    /\ Handled(session_state, Button("Login", 0),
               [NoInput EXCEPT !.username = u, !.password = p])

Login == \E u \in Usernames, p \in Passwords : LoginWith(u, p)

\* Create Account with username u and password p typed
CreateWith(u, p) ==
    /\ Button("Create Account", 0) \in page.buttons
    /\ Handled(session_state, Button("Create Account", 0),
               [NoInput EXCEPT !.new_username = u, !.new_password = p])

CreateAccount == \E u \in Usernames, p \in Passwords : CreateWith(u, p)

Logout ==
    /\ Button("Logout", 0) \in page.buttons
    /\ Handled(session_state, Button("Logout", 0), NoInput)

SelectFile ==
    /\ "file_selector" \in page.widgets
    /\ \E f \in Range(json_files(disk)) :
          Handled(Put(session_state, "file_selector", f), NoClick, NoInput)

SelectDifficulty ==
    /\ "difficulty_selector" \in page.widgets
    /\ \E dif \in Range(Difficulties) :
          Handled(Put(session_state, "difficulty_selector", dif), NoClick, NoInput)

\* an event that changes no modelled input (the radio is moved, a text is
\* typed): the script runs again with no button clicked
Rerender == Handled(session_state, NoClick, NoInput)

StartQuiz ==
    /\ Button("Start Quiz", 0) \in page.buttons
    /\ Handled(session_state, Button("Start Quiz", 0), NoInput)

\* Submit Answer on question k with the radio on `choice`
SubmitWith(k, choice) ==
    /\ Button("Submit Answer", k) \in page.buttons
    /\ choice \in Range(page.options[1])
    /\ Handled(session_state, Button("Submit Answer", k),
               [NoInput EXCEPT !.user_answer = choice])

Choices == {"x", "y", "z"}

SubmitAnswer == \E k \in 0..HardCount, choice \in Choices : SubmitWith(k, choice)

RestartQuiz ==
    /\ Button("Restart Quiz", 0) \in page.buttons
    /\ Handled(session_state, Button("Restart Quiz", 0), NoInput)

Init == Opened(QuizDisk)

Next ==
    \/ Login
    \/ Logout
    \/ SelectFile
    \/ SelectDifficulty
    \/ Rerender
    \/ StartQuiz
    \/ SubmitAnswer
    \/ RestartQuiz

Spec == Init /\ [][Next]_vars

\* the sampling specification: a bank larger than the "low" count, and the
\* events that lead to an initialization and show its first question
InitSample == Opened(SampleDisk)

NextSample ==
    \/ Login
    \/ SelectFile
    \/ SelectDifficulty
    \/ StartQuiz

SpecSample == InitSample /\ [][NextSample]_vars

\* the accounts specification: a directory in which nobody has registered
\* yet and which holds no question file
AccountsDisk == EmptyDict

InitAccounts == Opened(AccountsDisk)

NextAccounts ==
    \/ CreateAccount
    \/ Login
    \/ Logout

SpecAccounts == InitAccounts /\ [][NextAccounts]_vars

\* the race specification: two other sessions register accounts, each script
\* run in a thread of its own; a call of create_user is the step that loads
\* the table (line 86) and, later, the step that tests, saves and returns
\* (lines 87-91)
RaceNames == {"a", "b"}

RacePasswords == {"p", "p2"}

\* line 86: session c enters create_user(u, p) and loads the table
Enter(c, u, p) ==
    /\ calls[c].pc = "idle"
    /\ calls' = [calls EXCEPT ![c] = [pc |-> "loaded", username |-> u, password |-> p,
                                      users |-> load_users(disk)]]
    /\ UNCHANGED <<session_state, disk, page>>

\* lines 87-91: session c tests its table, saves it and returns
Return(c) ==
    /\ calls[c].pc = "loaded"
    /\ LET saved == save_new_user(disk, calls[c].users, calls[c].username,
                                  calls[c].password)
       IN /\ disk' = saved.disk
          /\ calls' = [calls EXCEPT ![c] = [pc |-> "returned", result |-> saved.result]
                                              @@ calls[c]]
    /\ UNCHANGED <<session_state, page>>

\* the script run of session c ends; its next registration may begin
Leave(c) ==
    /\ calls[c].pc = "returned"
    /\ calls' = [calls EXCEPT ![c] = [pc |-> "idle"]]
    /\ UNCHANGED <<session_state, disk, page>>

EnterCall == \E c \in Sessions, u \in RaceNames, p \in RacePasswords : Enter(c, u, p)

ReturnCall == \E c \in Sessions : Return(c)

LeaveCall == \E c \in Sessions : Leave(c)

InitRace == Opened(AccountsDisk)

NextRace ==
    \/ EnterCall
    \/ ReturnCall
    \/ LeaveCall

SpecRace == InitRace /\ [][NextRace]_vars

\* the admin specification: the account "admin" is registered and the
\* directory holds one bank, with a record that has no image_path, one whose
\* image opens and one whose image does not
AdminDisk ==
    ("a.json" :> BankFile(1, SmallBank + 1))
    @@ (USERS_FILE :> [json |-> ("admin" :> hash_password("p"))])

\* the admin stops adding when the bank has this many records
MaxBank == SmallBank + 3

\* what the admin types into "Add New Question"
Forms ==
    [id : {"", "n1", "n2"}, question : {"", "text"}, category : {"cat"},
     difficulty : {"easy"}, options : {<<>>, <<"x", ",", "y">>},
     correct_answer : {"", "y"}, image_path : {""}]

\* Add Question with `form` typed
AddWith(form) ==
    /\ Button("Add Question", 0) \in page.buttons
    /\ Len(load_questions(disk, session_state.file_selector)) < MaxBank
    /\ Handled(session_state, Button("Add Question", 0), [NoInput EXCEPT !.form = form])

AddQuestion == \E form \in Forms : AddWith(form)

\* what the admin types into the edit widgets of one question before Update
Edits ==
    {<<>>} \cup {<<[index |-> i, field |-> "correct_answer", value |-> "z"]>> :
                   i \in 0..(MaxBank - 1)}

\* Update Question on question i (counted from 0), with `edit` typed
UpdateWith(i, edit) ==
    /\ Button("Update Question", i) \in page.buttons
    /\ Handled(session_state, Button("Update Question", i), [NoInput EXCEPT !.edit = edit])

UpdateQuestion == \E i \in 0..(MaxBank - 1), edit \in Edits : UpdateWith(i, edit)

\* Delete Question on question i (counted from 0)
DeleteWith(i) ==
    /\ Button("Delete Question", i) \in page.buttons
    /\ Handled(session_state, Button("Delete Question", i), NoInput)

DeleteQuestion == \E i \in 0..(MaxBank - 1) : DeleteWith(i)

InitAdmin == Opened(AdminDisk)

NextAdmin ==
    \/ Login
    \/ Logout
    \/ AddQuestion
    \/ UpdateQuestion
    \/ DeleteQuestion

SpecAdmin == InitAdmin /\ [][NextAdmin]_vars

\* the logout specification: two users who are not the admin share the
\* browser session; the directory holds two banks
LogoutDisk ==
    ("a.json" :> BankFile(1, SmallBank))
    @@ ("b.json" :> BankFile(5, 5))
    @@ (USERS_FILE :> [json |-> [u \in {"a", "b"} |-> hash_password("p")]])

InitLogout == Opened(LogoutDisk)

NextLogout ==
    \/ Login
    \/ Logout
    \/ SelectFile
    \/ SelectDifficulty
    \/ StartQuiz
    \/ SubmitAnswer

SpecLogout == InitLogout /\ [][NextLogout]_vars

\* the round-trip specification: a well-formed bank file is loaded and the
\* loaded list is saved to the same file
MaxLen == 3

\* the kinds of stored record: without image_path, with an image that opens,
\* with one that does not, with an empty path, and with a null path
RecordKinds ==
    {StoredRecord(i) : i \in 1..5} \cup {Put(StoredRecord(5), "image_path", None)}

WellFormedBanks == UNION {[1..n -> RecordKinds] : n \in 0..MaxLen}

InitRoundTrip ==
    /\ \E bank \in WellFormedBanks : disk = ("a.json" :> [json |-> bank])
    /\ session_state = EmptyDict
    /\ page = BlankPage
    /\ calls = NoCalls

\* save_questions(f, load_questions(f))
RoundTrip ==
    /\ disk' = save_questions(disk, "a.json", load_questions(disk, "a.json"))
    /\ UNCHANGED <<session_state, page, calls>>

NextRoundTrip == RoundTrip

SpecRoundTrip == InitRoundTrip /\ [][NextRoundTrip]_vars

-----------------------------------------------------------------------------
(* Vocabulary of the properties. *)

\* a quiz session exists: initialize_quiz_state has run in this session
HasSession == "questions" \in DOMAIN session_state

\* the last script run reached quiz_interface
QuizRendered == Button("Start Quiz", 0) \in page.buttons

\* the bank the last initialization sampled from
LastBank == load_questions(disk, session_state.last_file)

\* the number of questions the specification gives for a difficulty
TargetCount(difficulty) ==
    CASE difficulty = "low" -> 10
      [] difficulty = "medium" -> 20
      [] difficulty = "hard" -> 30

\* `sample` holds exactly min(count, n) records of `bank`, no bank position
\* more than once: as many as asked for, and no record more often than the
\* bank holds it
IsSampleOf(sample, bank, difficulty) ==
    /\ Len(sample) = Min(TargetCount(difficulty), Len(bank))
    /\ \A r \in Range(sample) : 1 <= Count(sample, r) /\ Count(sample, r) <= Count(bank, r)

\* `shown` is a rearrangement of the question's options, to which
\* correct_answer is added only if it was missing
IsShuffleOf(shown, question) ==
    LET missing == question.correct_answer \notin Range(question.options)
    IN /\ Len(shown) = Len(question.options) + (IF missing THEN 1 ELSE 0)
       /\ \A v \in Range(shown) \cup Range(question.options) \cup {question.correct_answer} :
             Count(shown, v) = Count(question.options, v)
                               + (IF missing /\ v = question.correct_answer THEN 1 ELSE 0)

\* one shuffle per sampled question
AreShufflesOf(shuffles, sample) ==
    /\ Len(shuffles) = Len(sample)
    /\ \A i \in 1..Len(sample) : IsShuffleOf(shuffles[i], sample[i])

-----------------------------------------------------------------------------
(* C1: for every difficulty (10, 20, 30 questions) and every bank of n     *)
(* records, initialization leaves a sample of exactly min(count, n)        *)
(* records, total_questions equal to that number, and no bank position     *)
(* sampled twice.                                                          *)
C1_SampleSize ==
    HasSession =>
        /\ IsSampleOf(session_state.questions, LastBank, session_state.last_difficulty)
        /\ session_state.total_questions = Len(session_state.questions)

\* a session on "low" over a bank of more than 10 records: the count, not
\* the bank, limits the sample
C1_Witness ==
    /\ HasSession
    /\ session_state.last_difficulty = "low"
    /\ Len(LastBank) > 10
    /\ session_state.total_questions = 10

-----------------------------------------------------------------------------
(* C2, as amended: after initialization, shuffled_options[i] is, for every *)
(* sampled record i, a rearrangement of the record's options plus          *)
(* correct_answer if it was missing; it holds correct_answer at least      *)
(* once, and exactly once when the options held it at most once.           *)
C2_ShuffleIsPermutation ==
    HasSession =>
        /\ AreShufflesOf(session_state.shuffled_options, session_state.questions)
        /\ \A i \in 1..Len(session_state.questions) :
              LET q == session_state.questions[i]
                  shown == session_state.shuffled_options[i]
              IN /\ Count(shown, q.correct_answer) >= 1
                 /\ Count(q.options, q.correct_answer) <= 1
                       => Count(shown, q.correct_answer) = 1

\* C2 as stated: the shuffle is such a rearrangement and holds
\* correct_answer exactly once, for every record
C2_AnswerExactlyOnce ==
    HasSession =>
        /\ AreShufflesOf(session_state.shuffled_options, session_state.questions)
        /\ \A i \in 1..Len(session_state.questions) :
              Count(session_state.shuffled_options[i],
                    session_state.questions[i].correct_answer) = 1

\* a sample with a record whose answer was appended and a record whose
\* options list the answer twice
C2_Witness ==
    /\ HasSession
    /\ \E i \in 1..Len(session_state.questions) :
          Count(session_state.questions[i].options,
                session_state.questions[i].correct_answer) = 0
    /\ \E i \in 1..Len(session_state.questions) :
          Count(session_state.questions[i].options,
                session_state.questions[i].correct_answer) = 2

-----------------------------------------------------------------------------
(* C3: every Submit Answer step, taken while started and current_question  *)
(* < total_questions, advances current_question by exactly 1; it adds 1 to *)
(* correct_answers iff the selection equals the current record's           *)
(* correct_answer, and appends the record's id to incorrect_questions iff  *)
(* it differs; the other of the two is unchanged.                          *)
AnswerEffect(choice) ==
    LET q == session_state.questions[session_state.current_question + 1]
    IN /\ session_state.quiz_started
       /\ session_state.current_question < session_state.total_questions
       /\ session_state'.current_question = session_state.current_question + 1
       /\ choice = q.correct_answer =>
             /\ session_state'.correct_answers = session_state.correct_answers + 1
             /\ session_state'.incorrect_questions = session_state.incorrect_questions
       /\ choice # q.correct_answer =>
             /\ session_state'.correct_answers = session_state.correct_answers
             /\ session_state'.incorrect_questions =
                    Append(session_state.incorrect_questions, q.id)

C3_AnswerStep ==
    [][\A k \in 0..HardCount, choice \in Choices :
          SubmitWith(k, choice) => AnswerEffect(choice)]_vars

\* a right and a wrong answer have been submitted
C3_Witness ==
    /\ HasSession
    /\ session_state.correct_answers >= 1
    /\ session_state.incorrect_questions # <<>>
    /\ session_state.current_question = 2

-----------------------------------------------------------------------------
(* C4: in every reachable state of a session 0 <= current_question <=      *)
(* total_questions, and once current_question = total_questions no Submit  *)
(* Answer step is possible.                                                *)
C4_IndexInRange ==
    HasSession =>
        /\ 0 <= session_state.current_question
        /\ session_state.current_question <= session_state.total_questions
        /\ session_state.current_question = session_state.total_questions
              => ~ENABLED SubmitAnswer

\* a started session whose last question has been answered
C4_Witness ==
    /\ HasSession
    /\ session_state.quiz_started
    /\ session_state.total_questions > 0
    /\ session_state.current_question = session_state.total_questions
    /\ QuizRendered

-----------------------------------------------------------------------------
(* C5: the report (correct count, total, wrong ids) is on the page only    *)
(* when the session is started and current_question = total_questions, and *)
(* then no question and no Submit Answer button is; whenever the quiz is   *)
(* rendered for a started session with current_question < total_questions, *)
(* the question shown is the sampled record at current_question with       *)
(* shuffled_options[current_question], and no report is.                   *)
ReportShown == page.report # <<>>

C5_ReportOnlyWhenFinished ==
    /\ ReportShown =>
          /\ HasSession
          /\ session_state.quiz_started
          /\ session_state.current_question = session_state.total_questions
          /\ page.report = <<[correct |-> session_state.correct_answers,
                              total |-> session_state.total_questions,
                              wrong |-> session_state.incorrect_questions]>>
          /\ page.question = <<>>
          /\ \A k \in 0..HardCount : Button("Submit Answer", k) \notin page.buttons
    /\ (QuizRendered /\ session_state.quiz_started) =>
          IF session_state.current_question < session_state.total_questions
          THEN /\ page.question =
                      <<session_state.questions[session_state.current_question + 1]>>
               /\ page.options =
                      <<session_state.shuffled_options[session_state.current_question + 1]>>
               /\ Button("Submit Answer", session_state.current_question) \in page.buttons
               /\ ~ReportShown
          ELSE ReportShown

\* the report of a session with a wrong answer is on the page
C5_Witness ==
    /\ ReportShown
    /\ page.report[1].wrong # <<>>
    /\ page.report[1].correct >= 1

-----------------------------------------------------------------------------
(* C6: the tally is that of the answers given: correct_answers counts the  *)
(* answered questions whose selection matched, incorrect_questions lists   *)
(* the ids of the others in answer order, so that a finished session       *)
(* reports correct + wrong = total; a bank of n <= count records is        *)
(* sampled whole, and answering each question with its correct_answer      *)
(* ends in the report (n, n, []).                                          *)

\* the ids of the answered questions that h marks as not matched, in order
WrongIds(questions, h) ==
    LET idx == SelectSeq([i \in 1..Len(h) |-> i], LAMBDA i : ~h[i])
    IN [j \in 1..Len(idx) |-> questions[idx[j]].id]

\* some marking of the answered questions as matched or not gives the tally
Tally ==
    \E h \in [1..session_state.current_question -> BOOLEAN] :
        /\ session_state.correct_answers = Cardinality({i \in DOMAIN h : h[i]})
        /\ session_state.incorrect_questions = WrongIds(session_state.questions, h)

AllCorrect ==
    /\ session_state.incorrect_questions = <<>>
    /\ session_state.correct_answers = session_state.current_question

-----------------------------------------------------------------------------
(* C7: Restart Quiz, taken from a finished session, sets current_question  *)
(* = 0, correct_answers = 0, incorrect_questions = [] and replaces the     *)
(* sample and the shuffles by a fresh draw with the properties of an       *)
(* initialization, which need not equal the previous one.                  *)

\* ss is as an initialization over `bank` leaves it
FreshlyInitialized(ss, bank) ==
    /\ ss.current_question = 0
    /\ ss.correct_answers = 0
    /\ ss.incorrect_questions = <<>>
    /\ IsSampleOf(ss.questions, bank, ss.last_difficulty)
    /\ ss.total_questions = Len(ss.questions)
    /\ AreShufflesOf(ss.shuffled_options, ss.questions)

C7_RestartResets ==
    /\ [][RestartQuiz =>
            /\ ReportShown
            /\ FreshlyInitialized(session_state',
                                  load_questions(disk', session_state'.last_file))]_vars
    /\ [](ReportShown =>
            /\ ENABLED (RestartQuiz /\ session_state'.questions # session_state.questions)
            /\ ENABLED (RestartQuiz /\ session_state'.questions = session_state.questions))

\* a finished session with a tally to reset, from which Restart Quiz can
\* draw other shuffles than the ones it replaces
C7_Witness ==
    /\ ReportShown
    /\ session_state.correct_answers >= 1
    /\ session_state.incorrect_questions # <<>>
    /\ ENABLED (RestartQuiz /\ session_state'.shuffled_options # session_state.shuffled_options)

-----------------------------------------------------------------------------
(* C8, as amended: Restart Quiz, taken from a finished session, leads to a *)
(* freshly initialized session that is not started: no question is shown   *)
(* until Start Quiz is clicked again, which then shows the first question  *)
(* (index 0).                                                              *)
C8_RestartNeedsStart ==
    /\ [][RestartQuiz =>
            /\ ~session_state'.quiz_started
            /\ session_state'.current_question = 0
            /\ QuizRendered'
            /\ page'.question = <<>>
            /\ ~ReportShown']_vars
    /\ [][(StartQuiz /\ ~session_state.quiz_started) =>
            /\ session_state'.quiz_started
            /\ session_state'.current_question = 0
            /\ page'.question = <<session_state'.questions[1]>>
            /\ page'.options = <<session_state'.shuffled_options[1]>>]_vars

\* C8 as stated: right after Restart Quiz the session is started and the
\* first question is the current one
C8_RestartIsStarted ==
    [][RestartQuiz =>
          /\ session_state'.quiz_started
          /\ page'.question = <<session_state'.questions[1]>>]_vars

\* a finished session from which Restart Quiz leads to a session that is
\* not started
C8_Witness ==
    /\ ReportShown
    /\ ENABLED (RestartQuiz /\ ~session_state'.quiz_started /\ page'.question = <<>>)

-----------------------------------------------------------------------------
(* C9: a step that runs quiz_interface with a selected file or difficulty  *)
(* other than the one of the last initialization initializes the session   *)
(* anew (index 0, tally empty, not started, a new sample), also in the     *)
(* middle of a quiz; with both unchanged and a session present it keeps    *)
(* the sample, the shuffles and the progress (only Restart Quiz            *)
(* initializes then).                                                      *)
C9_ReinitOnChange ==
    [][(QuizRendered' /\ HasSession) =>
          IF \/ session_state'.file_selector # session_state.last_file
             \/ session_state'.difficulty_selector # session_state.last_difficulty
          THEN /\ ~session_state'.quiz_started
               /\ session_state'.last_file = session_state'.file_selector
               /\ session_state'.last_difficulty = session_state'.difficulty_selector
               /\ FreshlyInitialized(session_state',
                                     load_questions(disk', session_state'.last_file))
          ELSE \/ RestartQuiz
               \/ /\ session_state'.questions = session_state.questions
                  /\ session_state'.shuffled_options = session_state.shuffled_options
                  /\ session_state'.total_questions = session_state.total_questions
                  /\ session_state'.last_file = session_state.last_file
                  /\ session_state'.last_difficulty = session_state.last_difficulty
                  /\ session_state.quiz_started => session_state'.quiz_started
                  /\ IF SubmitAnswer
                     THEN session_state'.current_question = session_state.current_question + 1
                     ELSE /\ session_state'.current_question = session_state.current_question
                          /\ session_state'.correct_answers = session_state.correct_answers
                          /\ session_state'.incorrect_questions =
                                 session_state.incorrect_questions]_vars

\* a quiz in progress, from which a change of difficulty starts over
C9_Witness ==
    /\ HasSession
    /\ session_state.quiz_started
    /\ 1 <= session_state.current_question
    /\ session_state.current_question < session_state.total_questions
    /\ ENABLED (/\ SelectDifficulty
                /\ session_state'.last_difficulty # session_state.last_difficulty
                /\ session_state'.current_question = 0
                /\ ~session_state'.quiz_started)

-----------------------------------------------------------------------------
(* C10: Start Quiz sets quiz_started, taking a session that is not started *)
(* to a started one, and changes nothing else; on a session that is        *)
(* already started (in the middle of a quiz or finished) it leaves the     *)
(* whole session state unchanged.                                          *)
C10_StartIdempotent ==
    [][StartQuiz =>
          /\ session_state'.quiz_started
          /\ DOMAIN session_state' = DOMAIN session_state
          /\ \A key \in DOMAIN session_state \ {"quiz_started"} :
                session_state'[key] = session_state[key]
          /\ session_state.quiz_started => session_state' = session_state]_vars

\* Start Quiz can be clicked in the middle of a quiz
C10_Witness ==
    /\ HasSession
    /\ session_state.quiz_started
    /\ session_state.current_question = 1
    /\ session_state.current_question < session_state.total_questions
    /\ ENABLED StartQuiz

-----------------------------------------------------------------------------
(* C11, C12: the account store. *)

Users == load_users(disk)

\* C11: a registration run on its own returns false when the username is
\* already registered and then leaves the store as it was (the digest of the
\* first password stays); it returns true only when the username is absent,
\* and then the store is the old one plus username -> hash(password).
C11_CreateUser ==
    [][\A u \in Usernames, p \in Passwords :
          CreateWith(u, p) =>
             IF u \in DOMAIN Users
             THEN /\ "Username already exists" \in page'.messages
                  /\ "Account created successfully!" \notin page'.messages
                  /\ disk' = disk
             ELSE /\ "Account created successfully!" \in page'.messages
                  /\ "Username already exists" \notin page'.messages
                  /\ DOMAIN Users' = DOMAIN Users \cup {u}
                  /\ Users'[u] = hash_password(p)
                  /\ \A v \in DOMAIN Users : Users'[v] = Users[v]
                  /\ \A f \in DOMAIN disk : f # USERS_FILE => disk'[f] = disk[f]]_vars

\* a second registration of a registered username, under another password,
\* has just been refused
C11_Witness ==
    /\ "Username already exists" \in page.messages
    /\ "a" \in DOMAIN Users
    /\ Users["a"] = hash_password("p")
    /\ ENABLED CreateWith("a", "p2")

\* C12: a login succeeds exactly when the username is in the store and the
\* hash of the password equals the stored digest, and it never changes the
\* store; a registered digest survives every later registration, so the
\* password of a successful registration keeps verifying and a password with
\* another hash keeps failing.
C12_VerifyUser ==
    [][/\ \A u \in Usernames, p \in Passwords :
             LoginWith(u, p) =>
                /\ session_state'.logged_in
                      <=> (u \in DOMAIN Users /\ Users[u] = hash_password(p))
                /\ disk' = disk
       /\ \A u \in Usernames, p \in Passwords :
             (CreateWith(u, p) /\ u \notin DOMAIN Users) =>
                /\ verify_user(disk', u, p)
                /\ \A q \in Passwords :
                      hash_password(q) # hash_password(p) => ~verify_user(disk', u, q)
       /\ \A u \in Usernames, p \in Passwords :
             verify_user(disk, u, p) => verify_user(disk', u, p)
       /\ \A u \in DOMAIN Users, p \in Passwords :
             ~verify_user(disk, u, p) => ~verify_user(disk', u, p)]_vars

\* a user is logged in after other usernames were registered as well, and a
\* login of that user with another password would be refused
C12_Witness ==
    /\ session_state.logged_in
    /\ session_state.username \in DOMAIN Users
    /\ Cardinality(DOMAIN Users) >= 2
    /\ ~verify_user(disk, session_state.username, "wrong")

-----------------------------------------------------------------------------
(* C13: registrations that interleave. *)

\* both calls have returned, and both had loaded the same table, which held
\* neither username: each loaded before the other saved
BothLoadedFirst(c, d) ==
    /\ c # d
    /\ calls[c].pc = "returned" /\ calls[d].pc = "returned"
    /\ calls[c].users = calls[d].users
    /\ calls[c].username \notin DOMAIN calls[c].users
    /\ calls[d].username \notin DOMAIN calls[d].users

\* the store is table T plus the registration of call c
StoreIs(T, c) ==
    Users = Put(T, calls[c].username, hash_password(calls[c].password))

\* C13: when two calls of create_user both load before either saves, both
\* return true and the store is the loaded table plus the registration of
\* only one of them (the later save), so with two usernames one account that
\* was reported created is absent, and with one username both registrations
\* were reported created; a call that saves the table while it is still the
\* stored one (no other call saved in between) loses nothing and returns
\* true exactly when its username was absent.
C13_LostUpdate ==
    /\ [](\A c, d \in Sessions :
            BothLoadedFirst(c, d) =>
               /\ calls[c].result /\ calls[d].result
               /\ StoreIs(calls[c].users, c) \/ StoreIs(calls[c].users, d)
               /\ calls[c].username # calls[d].username =>
                     (calls[c].username \notin DOMAIN Users
                         <=> calls[d].username \in DOMAIN Users))
    /\ [][\A c \in Sessions :
             (Return(c) /\ calls[c].users = Users) =>
                /\ calls'[c].result <=> calls[c].username \notin DOMAIN Users
                /\ \A u \in DOMAIN Users : u \in DOMAIN Users' /\ Users'[u] = Users[u]
                /\ calls'[c].result =>
                      Users' = Put(Users, calls[c].username,
                                   hash_password(calls[c].password))]_vars

\* two registrations of different usernames were both reported created and
\* one of the two accounts is not in the store
C13_Witness ==
    \E c, d \in Sessions :
        /\ BothLoadedFirst(c, d)
        /\ calls[c].result /\ calls[d].result
        /\ calls[c].username # calls[d].username
        /\ calls[c].username \notin DOMAIN Users

-----------------------------------------------------------------------------
(* C14, C15: the admin's bank. *)

\* the bank file the admin page is on, as stored and as load_questions reads it
AdminFile == session_state.file_selector

StoredBank == disk[AdminFile].json

\* the ids of a bank, in order
IdsOf(bank) == [k \in 1..Len(bank) |-> bank[k].id]

\* C14: Add Question is refused when the id, the question, the options
\* input or the correct answer is empty, and then the bank on disk is
\* unchanged; otherwise the bank on disk is the loaded bank with the new
\* record appended at its end.
C14_CreateValidates ==
    [][\A form \in Forms :
          AddWith(form) =>
             IF \/ form.id = ""
                \/ form.question = ""
                \/ form.options = <<>>
                \/ form.correct_answer = ""
             THEN disk' = disk
             ELSE disk'[AdminFile].json
                     = Append(load_questions(disk, AdminFile), new_question(form))]_vars

\* C15: once Delete Question on record i has been handled, the bank on disk
\* is the previous bank without the record at position i, the later records
\* moved down by one.
C15_DeletePersists ==
    [][\A i \in 0..(MaxBank - 1) :
          DeleteWith(i) =>
             IdsOf(disk'[AdminFile].json) = IdsOf(pop(StoredBank, i))]_vars

-----------------------------------------------------------------------------
(* C16: saving what was loaded. *)

\* the stored record names an image that does not open
Unloadable(record) ==
    "image_path" \in DOMAIN record /\ record.image_path \notin LoadableImages

\* the stored record names an image that opens
Loadable(record) ==
    "image_path" \in DOMAIN record /\ record.image_path \in LoadableImages

\* record `new` is record `old` with image_path null (set or added)
SameButNullImage(new, old) ==
    /\ DOMAIN new = DOMAIN old \cup {"image_path"}
    /\ new.image_path = None
    /\ \A k \in DOMAIN old \ {"image_path"} : new[k] = old[k]

\* C16 (as amended): saving the loaded bank writes back the same records
\* in the same order; a record whose image opens is written back unchanged,
\* and every other record is written back with image_path null (also a
\* record that had no image_path field) and its other fields unchanged.
C16_RoundTrip ==
    [][RoundTrip =>
          LET old == disk["a.json"].json
              new == disk'["a.json"].json
          IN /\ Len(new) = Len(old)
             /\ \A i \in 1..Len(old) :
                   IF Loadable(old[i]) THEN new[i] = old[i]
                   ELSE SameButNullImage(new[i], old[i])]_vars

\* C16 (as claimed): the file after the round trip equals the file before
\* it, except that an image_path that does not resolve to a loadable image
\* is null; records with no image_path field are written back unchanged.
C16_RoundTripIdentity ==
    [][RoundTrip =>
          LET old == disk["a.json"].json
              new == disk'["a.json"].json
          IN /\ Len(new) = Len(old)
             /\ \A i \in 1..Len(old) :
                   IF Unloadable(old[i]) THEN SameButNullImage(new[i], old[i])
                   ELSE new[i] = old[i]]_vars

\* a bank has been loaded and saved that held the record stored without
\* image_path (now null), the one whose image opens (path kept) and the one
\* whose image does not open (now null)
C16_Witness ==
    LET new == disk["a.json"].json
    IN /\ \E i \in 1..Len(new) : new[i] = Put(StoredRecord(1), "image_path", None)
       /\ \E i \in 1..Len(new) : new[i] = StoredRecord(2)
       /\ \E i \in 1..Len(new) : new[i] = Put(StoredRecord(3), "image_path", None)

-----------------------------------------------------------------------------
(* C17: a record whose image does not load. *)

\* the stored record names a file, and the file does not open as an image
BrokenImage(record) ==
    Unloadable(record) /\ record.image_path \notin {"", None}

\* the question files of the directory
QuestionFiles == Range(json_files(disk))

\* C17 (as amended): load_questions returns as many records as are stored,
\* in the stored order, each with its fields other than image_path
\* unchanged; the image_path of a record whose image does not load is null,
\* a record whose image loads is returned unchanged, and any other record
\* has image_path null; the sampled records are loaded records, and when a
\* record whose image does not load is the current question it is shown
\* with its options, the answer among them, and can be submitted.
C17_UnloadableImage ==
    /\ \A f \in QuestionFiles :
          LET stored == disk[f].json
              loaded == load_questions(disk, f)
          IN /\ Len(loaded) = Len(stored)
             /\ \A i \in 1..Len(stored) :
                   IF Loadable(stored[i]) THEN loaded[i] = stored[i]
                   ELSE SameButNullImage(loaded[i], stored[i])
    /\ HasSession =>
          \A k \in 1..Len(session_state.questions) :
              session_state.questions[k] \in Range(LastBank)
    /\ (page.question # <<>> /\ \E r \in Range(disk[session_state.last_file].json) :
                                    r.id = page.question[1].id /\ BrokenImage(r)) =>
          /\ page.question[1].image_path = None
          /\ page.question[1].correct_answer \in Range(page.options[1])
          /\ Button("Submit Answer", session_state.current_question) \in page.buttons
          /\ ENABLED SubmitAnswer

\* C17 (as claimed): when a stored record names an image that does not
\* load, load_questions returns that record with image_path null and every
\* other record unchanged.
C17_OthersUnchanged ==
    \A f \in QuestionFiles :
        LET stored == disk[f].json
            loaded == load_questions(disk, f)
        IN \A i \in 1..Len(stored) :
              BrokenImage(stored[i]) =>
                 /\ Len(loaded) = Len(stored)
                 /\ SameButNullImage(loaded[i], stored[i])
                 /\ \A j \in 1..Len(stored) : j # i => loaded[j] = stored[j]

\* the record whose image does not load was sampled and has been answered
C17_Witness ==
    /\ HasSession
    /\ session_state.quiz_started
    /\ \E k \in 1..session_state.current_question :
          /\ session_state.questions[k].id = "q3"
          /\ session_state.questions[k].image_path = None
          /\ \E r \in Range(disk[session_state.last_file].json) :
                r.id = "q3" /\ BrokenImage(r)

-----------------------------------------------------------------------------
(* C18, C19: the quiz leaves the bank alone and keeps its sample. *)

\* C18: no step of a quiz session writes a question file, and every sampled
\* record still has the options (content and order) and the correct answer
\* of the loaded record with its id: the shuffle and the appended answer
\* are in shuffled_options only.
C18_BankUntouched ==
    /\ [][\A f \in QuestionFiles : f \in DOMAIN disk' /\ disk'[f] = disk[f]]_vars
    /\ [](HasSession =>
            \A k \in 1..Len(session_state.questions) :
                \E r \in Range(LastBank) :
                    /\ r.id = session_state.questions[k].id
                    /\ r.options = session_state.questions[k].options
                    /\ r.correct_answer = session_state.questions[k].correct_answer)

\* a question is on the page whose shown options differ from the options of
\* its record, after an answer was given
C18_Witness ==
    /\ HasSession
    /\ session_state.current_question >= 1
    /\ page.options # <<>>
    /\ page.options[1] # page.question[1].options

\* the sample and its shuffled options are those of the state before
Frozen ==
    /\ HasSession'
    /\ session_state'.questions = session_state.questions
    /\ session_state'.shuffled_options = session_state.shuffled_options

\* C19: between two initializations the sample and every shuffled option
\* list stay as they are: Start Quiz, Submit Answer and every script run
\* with the same source and difficulty leave them unchanged, and the
\* options on the page are the stored list of the current question.
C19_SampleFrozen ==
    /\ [][(HasSession /\ (StartQuiz \/ SubmitAnswer \/ Rerender)) => Frozen]_vars
    /\ [][(/\ HasSession /\ HasSession'
            /\ ~RestartQuiz
            /\ session_state'.last_file = session_state.last_file
            /\ session_state'.last_difficulty = session_state.last_difficulty)
              => Frozen]_vars
    /\ [](page.options # <<>> =>
            page.options[1]
               = session_state.shuffled_options[session_state.current_question + 1])

\* an answer has been given in a session whose sample is not in bank order
\* and whose first option list was reordered
C19_Witness ==
    /\ HasSession
    /\ session_state.quiz_started
    /\ session_state.current_question >= 1
    /\ Len(session_state.questions) >= 2
    /\ session_state.questions # LastBank
    /\ \E k \in 1..Len(session_state.questions) :
          session_state.shuffled_options[k] # session_state.questions[k].options

-----------------------------------------------------------------------------
(* C20: logout keeps the quiz session. *)

\* the keys of the quiz session and of the source and difficulty it was
\* initialized for
QuizKeys ==
    {"questions", "shuffled_options", "current_question", "correct_answers",
     "incorrect_questions", "quiz_started", "total_questions", "last_file",
     "last_difficulty"}

\* every quiz key of the state before is in the state after, with its value
QuizKept ==
    \A key \in QuizKeys \cap DOMAIN session_state :
        key \in DOMAIN session_state' /\ session_state'[key] = session_state[key]

\* C20: Logout sets logged_in to false and username to none and leaves the
\* sample, the shuffled options, the index, the tally, the started flag and
\* the last source and difficulty as they were; a later login in the same
\* browser session, by the same or another user who is not the admin, that
\* comes up with the same source and difficulty keeps them too: the
\* progress is resumed and nothing is initialized again.
C20_LogoutKeepsSession ==
    /\ [][Logout =>
             /\ session_state'.logged_in = FALSE
             /\ session_state'.username = None
             /\ QuizKept
             /\ DOMAIN session_state' \subseteq DOMAIN session_state
             /\ disk' = disk]_vars
    /\ [][\A u \in Usernames \ {"admin"}, p \in Passwords :
             (/\ LoginWith(u, p)
              /\ HasSession
              /\ session_state'.logged_in
              /\ session_state'.file_selector = session_state.last_file
              /\ session_state'.difficulty_selector = session_state.last_difficulty)
                => (QuizKept /\ session_state'.username = u)]_vars

\* user "a" has answered a question and logged out; user "b" can log in and
\* finds the session at the same question
C20_Witness ==
    /\ HasSession
    /\ session_state.logged_in = FALSE
    /\ session_state.username = None
    /\ session_state.quiz_started
    /\ session_state.current_question >= 1
    /\ ENABLED (/\ LoginWith("b", "p")
                /\ session_state'.username = "b"
                /\ session_state'.current_question = session_state.current_question
                /\ session_state'.questions = session_state.questions)

====
